---- MODULE Spec2Model ----
(***************************************************************************)
(* A model of code/make_logratio_matrix.py: the grid of characters by      *)
(* publication year and author gender, the resampling of each cell, the    *)
(* vocabulary, the count vectors, the Laplace-smoothed log ratios, the     *)
(* matrix file, the per-word regression loop, and the function dunnings.   *)
(*                                                                         *)
(* Representation.  A Python string that the code only compares or uses as *)
(* a key (charid, authgender, docid) is a TLA+ string.  A Python string    *)
(* that the code takes apart (startswith, rstrip, split, int) is a         *)
(* sequence of one-character strings.  Python's 0-based positions idx are  *)
(* the 1-based positions idx + 1 here.  A float is kept as the exact       *)
(* rational or sign it stands for, or as NaN where numpy produces nan;     *)
(* rounding is not modelled, so two quotients that are equal as rationals  *)
(* are equal floats.  VOCABLENGTH is a positive integer, and select_chars  *)
(* is called with any n from 0 up, where the script passes N = 3000.       *)
(***************************************************************************)
EXTENDS Integers, Sequences, FiniteSets, TLC

VARIABLES
    pc,             \* position of the script: which top-level block runs next
    raised,         \* the exception that ended the script, "" if none
    VOCABLENGTH,    \* line 48: int(arguments[1])
    metadata,       \* line 55: the DataFrame, or NoMetadata when never bound
    names,          \* line 74: the lines of the lexicon
    personalnames,  \* lines 72-79
    files_read,     \* the loop of line 175: the fill_grid calls made so far
    rows_read,      \* the loop of line 175: the rows read so far
    lastfile,       \* the loop of line 175: the rows of the file read last
    grid,           \* line 171
    wordsdict,      \* line 172
    genderdict,     \* line 173
    n_drawn,        \* the argument n of the select_chars call
    selected,       \* line 180
    vocab,          \* line 186: the Counter, as <<word, count>> in insertion order
    wordsinorder,   \* line 193
    vecbyyear,      \* lines 203-221
    diffmatrix,     \* line 360
    matrixfile,     \* the file written by writematrix, line 371
    outrows,        \* line 375
    vectora,        \* first argument of dunnings
    vectorb,        \* second argument of dunnings
    dunningvector   \* the vector dunnings returns

vars == <<pc, raised, VOCABLENGTH, metadata, names, personalnames, files_read,
          rows_read, lastfile, grid, wordsdict, genderdict, n_drawn, selected,
          vocab, wordsinorder, vecbyyear, diffmatrix, matrixfile, outrows,
          vectora, vectorb, dunningvector>>

dunningvars == <<vectora, vectorb, dunningvector>>

-----------------------------------------------------------------------------
(* Bounds of the model. *)

MaxFiles == 2       \* fill_grid calls
MaxRows == 2        \* rows read over all the files
MaxN == 2           \* the argument n of select_chars
MaxVocab == 2       \* VOCABLENGTH
MaxVecLen == 2      \* length of the vectors given to dunnings
MaxCount == 2       \* largest count in a vector given to dunnings

-----------------------------------------------------------------------------
(* Program constants. *)

FirstYear == 1780
LastYear == 2007

Years == FirstYear .. LastYear

Genders == <<"f", "m">>

GenderSet == {Genders[k] : k \in 1 .. Len(Genders)}

-----------------------------------------------------------------------------
(* Strings as sequences of characters. *)

StartsWith(w, prefix) ==
    /\ Len(w) >= Len(prefix)
    /\ SubSeq(w, 1, Len(prefix)) = prefix

Whitespace == {" ", "\n", "\t", "\r"}

RECURSIVE RStrip(_)
RStrip(line) ==
    IF line # <<>> /\ line[Len(line)] \in Whitespace
    THEN RStrip(SubSeq(line, 1, Len(line) - 1))
    ELSE line

\* str.split(): the maximal runs of non-whitespace characters, in order.
\* cur is the run being read, out the tokens found so far.
RECURSIVE SplitFrom(_, _, _)
SplitFrom(s, cur, out) ==
    IF s = <<>>
    THEN IF cur = <<>> THEN out ELSE Append(out, cur)
    ELSE IF Head(s) \in Whitespace
         THEN SplitFrom(Tail(s), <<>>, IF cur = <<>> THEN out ELSE Append(out, cur))
         ELSE SplitFrom(Tail(s), Append(cur, Head(s)), out)

Split(s) == SplitFrom(s, <<>>, <<>>)

Digits == <<"0", "1", "2", "3", "4", "5", "6", "7", "8", "9">>

DigitValue(c) == (CHOOSE k \in 1 .. 10 : Digits[k] = c) - 1

IsNumeral(s) ==
    /\ s # <<>>
    /\ \A k \in 1 .. Len(s) : \E d \in 1 .. 10 : Digits[d] = s[k]

\* int(s) for a string of decimal digits
RECURSIVE ParseInt(_)
ParseInt(s) ==
    IF s = <<>> THEN 0
    ELSE 10 * ParseInt(SubSeq(s, 1, Len(s) - 1)) + DigitValue(s[Len(s)])

SaidPrefix == <<"s", "a", "i", "d", "-">>

-----------------------------------------------------------------------------
(* The name lexicon. *)

PersonalNames(lines) ==
    {RStrip(lines[k]) : k \in 1 .. Len(lines)}
        \cup {SaidPrefix \o RStrip(lines[k]) : k \in 1 .. Len(lines)}

-----------------------------------------------------------------------------
(* The grid. *)

initialize_grid == [i \in Years |-> [g \in GenderSet |-> <<>>]]

NoMetadata == [bound |-> FALSE, authgender |-> <<>>]

\* pd.read_csv(path) with no index_col: the index is the RangeIndex 0 .. n-1
\* and the column authgender holds one value per line of the file.
DataFrame(column) == [bound |-> TRUE, authgender |-> column]

PyStr(s) == [type |-> "str", val |-> s]

PyInt(i) == [type |-> "int", val |-> i]

\* Python ==: a str never equals an int
PyEq(a, b) == a.type = b.type /\ a.val = b.val

MetadataIndex(df) == {PyInt(k - 1) : k \in 1 .. Len(df.authgender)}

InIndex(key, df) == \E k \in MetadataIndex(df) : PyEq(key, k)

\* metadata.loc[key, 'authgender'] for a key of the index
Loc(key, df) == df.authgender[key.val + 1]

UnknownGender_prefix_dropped(chargender) == chargender = <<"u">>

UnknownGender(chargender) == StartsWith(chargender, <<"u">>)

YearOutOfRange(pubdate) == pubdate < FirstYear \/ pubdate > LastYear

MapPut(d, key, value) ==
    [k \in DOMAIN d \cup {key} |-> IF k = key THEN value ELSE d[k]]

\* One iteration of the loop of fill_grid.  st holds the three structures
\* and the exception, if any, that ended the call.
fill_row(st, row) ==
    LET chargender == IF "chargender" \in row.keys THEN row.chargender ELSE row.gender
    IN
    IF UnknownGender(chargender) THEN st
    ELSE IF "authgender" \notin row.keys /\ ~metadata.bound
    THEN [st EXCEPT !.raised = "NameError"]
    ELSE IF "authgender" \notin row.keys /\ ~InIndex(PyStr(row.docid), metadata)
    THEN st
    ELSE
    LET authgender == IF "authgender" \in row.keys THEN row.authgender
                      ELSE Loc(PyStr(row.docid), metadata)
    IN
    IF authgender # "m" /\ authgender # "f" THEN st
    ELSE IF ~IsNumeral(row.pubdate) THEN [st EXCEPT !.raised = "ValueError"]
    ELSE
    LET pubdate == ParseInt(row.pubdate)
    IN
    IF YearOutOfRange(pubdate) THEN st
    ELSE [st EXCEPT !.grid[pubdate][authgender] = Append(@, row.charid),
                    !.genderdict = MapPut(@, row.charid, chargender),
                    !.wordsdict = MapPut(@, row.charid, Split(row.words))]

RECURSIVE fill_rows(_, _)
fill_rows(st, rows) ==
    IF rows = <<>> \/ st.raised # "" THEN st
    ELSE fill_rows(fill_row(st, Head(rows)), Tail(rows))

\* fill_grid(filepath, grid, wordsdict, genderdict), rows being the file's rows
fill_grid(rows) ==
    LET st == fill_rows([grid |-> grid, wordsdict |-> wordsdict,
                         genderdict |-> genderdict, raised |-> ""], rows)
    IN
    /\ grid' = st.grid
    /\ wordsdict' = st.wordsdict
    /\ genderdict' = st.genderdict
    /\ lastfile' = rows
    /\ files_read' = files_read + 1
    /\ rows_read' = rows_read + Len(rows)
    /\ pc' = IF st.raised # "" THEN "raised" ELSE pc
    /\ raised' = st.raised

-----------------------------------------------------------------------------
(* The inputs the model draws from. *)

the == <<"t">>
dog == <<"d">>
cat == <<"c">>
al == <<"a", "l">>
sp == <<" ">>

WordsTheTheDog == the \o sp \o the \o sp \o dog
WordsDog == dog
WordsNames == al \o sp \o SaidPrefix \o al \o sp \o sp \o SaidPrefix \o the \o sp \o dog

Numeral1779 == <<"1", "7", "7", "9">>
Numeral1780 == <<"1", "7", "8", "0">>
Numeral2007 == <<"2", "0", "0", "7">>
Numeral2008 == <<"2", "0", "0", "8">>

\* a row of a file whose header has chargender and authgender
InlineRow(charid, chargender, authgender, pubdate, words) ==
    [keys |-> {"charid", "chargender", "authgender", "pubdate", "words"},
     charid |-> charid, chargender |-> chargender, gender |-> <<>>,
     authgender |-> authgender, docid |-> "", pubdate |-> pubdate, words |-> words]

\* a row of a file whose header has gender in place of chargender
GenderKeyRow(charid, gender, authgender, pubdate, words) ==
    [keys |-> {"charid", "gender", "authgender", "pubdate", "words"},
     charid |-> charid, chargender |-> <<>>, gender |-> gender,
     authgender |-> authgender, docid |-> "", pubdate |-> pubdate, words |-> words]

\* a row of a file whose header has docid and no authgender
DocidRow(charid, chargender, docid, pubdate, words) ==
    [keys |-> {"charid", "chargender", "docid", "pubdate", "words"},
     charid |-> charid, chargender |-> chargender, gender |-> <<>>,
     authgender |-> "", docid |-> docid, pubdate |-> pubdate, words |-> words]

GridRows ==
    { InlineRow("c1", <<"f">>, "f", Numeral1780, WordsTheTheDog),
      InlineRow("c2", <<"m">>, "m", Numeral2007, WordsDog),
      InlineRow("c3", <<"u", "n", "k">>, "f", Numeral1780, WordsDog),
      InlineRow("c4", <<"f">>, "f", Numeral1779, WordsDog),
      InlineRow("c5", <<"m">>, "m", Numeral2008, WordsDog),
      InlineRow("c6", <<"f">>, "male", Numeral2007, WordsDog),
      GenderKeyRow("c1", <<"m">>, "m", Numeral1780, WordsDog),
      DocidRow("c7", <<"f">>, "0", Numeral1780, WordsDog),
      InlineRow("c8", <<"f">>, "f", <<>>, WordsDog) }

PipelineRows ==
    { InlineRow("c1", <<"f">>, "f", Numeral1780, WordsTheTheDog),
      InlineRow("c2", <<"m">>, "m", Numeral1780, WordsTheTheDog),
      InlineRow("c3", <<"m">>, "f", Numeral1780, WordsNames),
      InlineRow("c1", <<"m">>, "m", Numeral2007, WordsDog) }

SeqsUpTo(S, k) == UNION {[1 .. m -> S] : m \in 0 .. k}

MetadataChoices == {NoMetadata, DataFrame(<<"f">>)}

LexiconChoices == {<<>>, <<al \o <<"\n">>, cat \o <<" ", "\n">> >>}

NoFile == [written |-> FALSE, header |-> <<>>, rows |-> <<>>]

EmptyDict == [c \in {} |-> <<>>]

-----------------------------------------------------------------------------
(* The script up to the loop of line 175. *)

ScriptStart(metachoices, lexicons) ==
    /\ VOCABLENGTH \in 1 .. MaxVocab
    /\ metadata \in metachoices
    /\ names \in lexicons
    /\ personalnames = PersonalNames(names)
    /\ raised = ""
    /\ files_read = 0
    /\ rows_read = 0
    /\ lastfile = <<>>
    /\ grid = initialize_grid
    /\ wordsdict = EmptyDict
    /\ genderdict = EmptyDict
    /\ n_drawn = 0
    /\ selected = initialize_grid
    /\ vocab = <<>>
    /\ wordsinorder = <<>>
    /\ vecbyyear = EmptyDict
    /\ diffmatrix = <<>>
    /\ matrixfile = NoFile
    /\ outrows = <<>>

NoDunningsCall ==
    /\ vectora = <<>>
    /\ vectorb = <<>>
    /\ dunningvector = <<>>

Init ==
    /\ pc = "fill"
    /\ ScriptStart({DataFrame(<<>>)}, LexiconChoices)
    /\ NoDunningsCall

InitGrid ==
    /\ pc = "fill"
    /\ ScriptStart(MetadataChoices, {<<>>})
    /\ NoDunningsCall

\* line 175-176, one iteration, over a file of any rows
FillGridAny ==
    /\ pc = "fill"
    /\ files_read < MaxFiles
    /\ \E rows \in SeqsUpTo(GridRows, MaxRows - rows_read) : fill_grid(rows)
    /\ UNCHANGED <<VOCABLENGTH, metadata, names, personalnames, n_drawn, selected, vocab,
                   wordsinorder, vecbyyear, diffmatrix, matrixfile, outrows>>
    /\ UNCHANGED dunningvars

NextGrid == FillGridAny

SpecGrid == InitGrid /\ [][NextGrid]_vars

-----------------------------------------------------------------------------
(* select_chars *)

\* random.choice(options), r being the position the generator picks
random_choice(options, r) == options[r]

NonEmptyCells(g) == {c \in Years \X GenderSet : Len(g[c[1]][c[2]]) >= 1}

CellLengths(g) == {Len(g[c[1]][c[2]]) : c \in Years \X GenderSet}

LongestCell(g) == CHOOSE m \in CellLengths(g) : \A k \in CellLengths(g) : k <= m

\* the outcomes of the random generator: one position per draw of each
\* non-empty cell
Picks(g, n) ==
    {p \in [NonEmptyCells(g) -> [1 .. n -> 1 .. LongestCell(g)]] :
        \A c \in NonEmptyCells(g) : \A n1 \in 1 .. n : p[c][n1] <= Len(g[c[1]][c[2]])}

DrawCell_one_short(options, n, picks) ==
    IF Len(options) < 1 THEN <<>>
    ELSE [n1 \in 1 .. n - 1 |-> random_choice(options, picks[n1])]

\* lines 151-156: the n draws of one cell
DrawCell(options, n, picks) ==
    IF Len(options) < 1 THEN <<>>
    ELSE [n1 \in 1 .. n |-> random_choice(options, picks[n1])]

select_chars(g, n, p) ==
    [y \in Years |-> [a \in GenderSet |->
        DrawCell(g[y][a], n, IF <<y, a>> \in DOMAIN p THEN p[<<y, a>>] ELSE <<>>)]]

-----------------------------------------------------------------------------
(* make_vocab and the vocabulary *)

RECURSIVE WordsOfChars(_, _)
\* the words of the characters of one cell, in the order the loops of lines
\* 163-165 and 216-218 meet them
WordsOfChars(chars, wd) ==
    IF chars = <<>> THEN <<>>
    ELSE wd[Head(chars)] \o WordsOfChars(Tail(chars), wd)

\* the years from y on whose cells hold a character; the loops of lines
\* 161-165 do nothing in the other years
BusyYears(y, sel) ==
    {z \in y .. LastYear : \E g \in GenderSet : sel[z][g] # <<>>}

RECURSIVE WordsFromYear(_, _, _)
\* the words met by the loops of lines 161-165 from year y on
WordsFromYear(y, sel, wd) ==
    IF BusyYears(y, sel) = {} THEN <<>>
    ELSE LET z == CHOOSE z \in BusyYears(y, sel) : \A x \in BusyYears(y, sel) : z <= x
         IN WordsOfChars(sel[z][Genders[1]], wd) \o WordsOfChars(sel[z][Genders[2]], wd)
                \o WordsFromYear(z + 1, sel, wd)

\* vocab[w] += 1 on a Counter kept in insertion order
CounterAdd(cnt, w) ==
    IF \E k \in 1 .. Len(cnt) : cnt[k][1] = w
    THEN [k \in 1 .. Len(cnt) |-> IF cnt[k][1] = w THEN <<w, cnt[k][2] + 1>> ELSE cnt[k]]
    ELSE Append(cnt, <<w, 1>>)

Counted_names_kept(w, lexicon) == ~StartsWith(w, SaidPrefix)

\* line 166
Counted(w, lexicon) == ~StartsWith(w, SaidPrefix) /\ w \notin lexicon

RECURSIVE CountWords(_, _, _)
\* lines 165-167
CountWords(cnt, words, lexicon) ==
    IF words = <<>> THEN cnt
    ELSE CountWords(IF Counted(Head(words), lexicon) THEN CounterAdd(cnt, Head(words)) ELSE cnt,
                    Tail(words), lexicon)

make_vocab(sel, wd, cnt) == CountWords(cnt, WordsFromYear(FirstYear, sel, wd), personalnames)

\* puts e after the entries of the descending sequence s whose count is
\* not smaller: equal counts keep the order in which they were inserted
InsertDescending(s, e) ==
    LET keep == {k \in 0 .. Len(s) : \A j \in 1 .. k : s[j][2] >= e[2]}
        k == CHOOSE k \in keep : \A j \in keep : j <= k
    IN SubSeq(s, 1, k) \o <<e>> \o SubSeq(s, k + 1, Len(s))

RECURSIVE SortedDescending(_)
SortedDescending(cnt) ==
    IF cnt = <<>> THEN <<>>
    ELSE InsertDescending(SortedDescending(SubSeq(cnt, 1, Len(cnt) - 1)), cnt[Len(cnt)])

\* Counter.most_common(n), n >= 0
most_common(cnt, n) ==
    LET s == SortedDescending(cnt)
    IN SubSeq(s, 1, IF n < Len(s) THEN n ELSE Len(s))

\* line 193
WordsInOrder(cnt, n) == [k \in 1 .. Len(most_common(cnt, n)) |-> most_common(cnt, n)[k][1]]

\* lines 195-200
vocabset == {wordsinorder[k] : k \in 1 .. Len(wordsinorder)}

vocabulary == [w \in vocabset |-> (CHOOSE k \in 1 .. Len(wordsinorder) : wordsinorder[k] = w) - 1]

-----------------------------------------------------------------------------
(* The count vectors. *)

\* np.zeros((length))
zeros(length) == [k \in 1 .. length |-> 0]

RECURSIVE count_words_every(_, _)
count_words_every(vec, words) ==
    IF words = <<>> THEN vec
    ELSE count_words_every(
             IF Head(words) \in vocabset
             THEN [vec EXCEPT ![vocabulary[Head(words)] + 1] = @ + 1]
             ELSE [vec EXCEPT ![1] = @ + 1],
             Tail(words))

RECURSIVE count_words(_, _)
\* lines 218-221
count_words(vec, words) ==
    IF words = <<>> THEN vec
    ELSE count_words(
             IF Head(words) \in vocabset
             THEN [vec EXCEPT ![vocabulary[Head(words)] + 1] = @ + 1]
             ELSE vec,
             Tail(words))

\* lines 203-221
Vectorized(sel, wd, length) ==
    [g \in GenderSet |-> [y \in Years |->
        count_words(zeros(length), WordsOfChars(sel[y][g], wd))]]

-----------------------------------------------------------------------------
(* Floats.  A finite float is the rational num / den with den > 0; the     *)
(* natural logarithm of a positive rational is kept as its argument.       *)

Finite(n, d) == [kind |-> "finite", num |-> n, den |-> d]

NaN == [kind |-> "nan", num |-> 0, den |-> 1]

PlusInf == [kind |-> "inf", num |-> 1, den |-> 1]

MinusInf == [kind |-> "inf", num |-> -1, den |-> 1]

LogOf(n, d) == [kind |-> "log", num |-> n, den |-> d]

\* numpy's x / y on floats: a zero divisor gives nan or an infinity and a
\* RuntimeWarning, never an exception
Divide(x, y) ==
    IF x.kind # "finite" \/ y.kind # "finite" THEN NaN
    ELSE IF y.num = 0
    THEN IF x.num = 0 THEN NaN ELSE IF x.num > 0 THEN PlusInf ELSE MinusInf
    ELSE IF y.num > 0 THEN Finite(x.num * y.den, x.den * y.num)
    ELSE Finite(-(x.num * y.den), -(x.den * y.num))

\* np.log: nan for a negative argument or nan, -inf for zero
Log(x) ==
    IF x.kind = "inf" THEN IF x.num > 0 THEN PlusInf ELSE NaN
    ELSE IF x.kind # "finite" THEN NaN
    ELSE IF x.num < 0 THEN NaN
    ELSE IF x.num = 0 THEN MinusInf
    ELSE LogOf(x.num, x.den)

\* x == 0 on a value of the matrix
IsZero(x) == x.kind = "log" /\ x.num = x.den

RECURSIVE Sum(_)
\* np.sum of a vector of counts
Sum(vec) == IF vec = <<>> THEN 0 ELSE vec[1] + Sum(Tail(vec))

-----------------------------------------------------------------------------
(* log_ratios *)

datevector == [k \in 1 .. LastYear - FirstYear + 1 |-> FirstYear + k - 1]

PlusOne_dropped(vec) == vec

\* vec + 1, lines 345 and 349
PlusOne(vec) == [k \in 1 .. Len(vec) |-> vec[k] + 1]

\* vec / np.sum(vec), lines 346 and 350
Normalized(vec) == [k \in 1 .. Len(vec) |-> Divide(Finite(vec[k], 1), Finite(Sum(vec), 1))]

\* lines 352-354 for one year, from the two smoothed vectors
LogRatioRow(fsmoothed, msmoothed) ==
    LET fvec == Normalized(fsmoothed)
        mvec == Normalized(msmoothed)
    IN [k \in 1 .. Len(fvec) |-> Log(Divide(fvec[k], mvec[k]))]

\* vecbyyear as log_ratios leaves it
SmoothedVectors(vby) == [g \in GenderSet |-> [y \in Years |-> PlusOne(vby[g][y])]]

\* the matrix log_ratios returns
log_ratios(vby, dates) ==
    [k \in 1 .. Len(dates) |->
        LogRatioRow(SmoothedVectors(vby)["f"][dates[k]], SmoothedVectors(vby)["m"][dates[k]])]

-----------------------------------------------------------------------------
(* writematrix *)

thedate == <<"t", "h", "e", "d", "a", "t", "e">>

writematrix(amatrix) ==
    [written |-> TRUE,
     header |-> <<thedate>> \o wordsinorder,
     rows |-> [i \in 1 .. Len(datevector) |-> <<Finite(datevector[i], 1)>> \o amatrix[i]]]

-----------------------------------------------------------------------------
(* The regression loop, lines 376-424. *)

\* thiscolumn, for the 0-based column i
Column(amatrix, i) == [k \in 1 .. Len(amatrix) |-> amatrix[k][i + 1]]

\* the rows of notmissing that are True
NotMissing(column) == {k \in 1 .. Len(column) : ~IsZero(column[k])}

\* what LinearRegression().fit(x, y) does with the rows it is given: it
\* raises on no rows and on a value that is not finite
FitRaises(column) ==
    \/ NotMissing(column) = {}
    \/ \E k \in NotMissing(column) : column[k].kind # "log"

\* the dictionary out of lines 416-423; a float written as a number is "float"
OutRow(word) ==
    [word |-> word, slope |-> "float", mean |-> "float", intercept |-> "float",
     change |-> "float", approachmid |-> "float", approachstd |-> "float"]

RECURSIVE regression_loop(_, _, _)
\* the loop from column i on, rows being outrows so far
regression_loop(i, amatrix, rows) ==
    IF i >= VOCABLENGTH THEN [outrows |-> rows, raised |-> ""]
    ELSE IF i + 1 > Len(wordsinorder) THEN [outrows |-> rows, raised |-> "IndexError"]
    ELSE IF FitRaises(Column(amatrix, i)) THEN [outrows |-> rows, raised |-> "ValueError"]
    ELSE regression_loop(i + 1, amatrix, Append(rows, OutRow(wordsinorder[i + 1])))

-----------------------------------------------------------------------------
(* The script, block by block. *)

\* lines 175-176, one iteration
FillGrid ==
    /\ pc = "fill"
    /\ files_read < MaxFiles
    /\ \E rows \in SeqsUpTo(PipelineRows, MaxRows - rows_read) : fill_grid(rows)
    /\ UNCHANGED <<VOCABLENGTH, metadata, names, personalnames, n_drawn, selected, vocab,
                   wordsinorder, vecbyyear, diffmatrix, matrixfile, outrows>>
    /\ UNCHANGED dunningvars

\* line 180, for any n; the loop of line 175 has ended and its state is gone
SelectChars ==
    /\ pc = "fill"
    /\ \E n \in 0 .. MaxN : \E p \in Picks(grid, n) :
           /\ selected' = select_chars(grid, n, p)
           /\ n_drawn' = n
    /\ pc' = "selected"
    /\ files_read' = 0 /\ rows_read' = 0 /\ lastfile' = <<>>
    /\ UNCHANGED <<VOCABLENGTH, metadata, names, personalnames, grid, wordsdict,
                   genderdict, vocab, wordsinorder, vecbyyear, diffmatrix, matrixfile,
                   outrows>>
    /\ UNCHANGED <<raised, vectora, vectorb, dunningvector>>

\* lines 186-200
MakeVocab ==
    /\ pc = "selected"
    /\ vocab' = make_vocab(selected, wordsdict, <<>>)
    /\ wordsinorder' = WordsInOrder(vocab', VOCABLENGTH)
    /\ pc' = "vocabulary"
    /\ UNCHANGED <<VOCABLENGTH, metadata, names, personalnames, files_read, rows_read, lastfile,
                   grid, wordsdict, genderdict, n_drawn, selected, vecbyyear,
                   diffmatrix, matrixfile, outrows>>
    /\ UNCHANGED <<raised, vectora, vectorb, dunningvector>>

\* lines 203-221
CountVectors ==
    /\ pc = "vocabulary"
    /\ vecbyyear' = Vectorized(selected, wordsdict, VOCABLENGTH)
    /\ pc' = "counted"
    /\ UNCHANGED <<VOCABLENGTH, metadata, names, personalnames, files_read, rows_read, lastfile,
                   grid, wordsdict, genderdict, n_drawn, selected, vocab, wordsinorder,
                   diffmatrix, matrixfile, outrows>>
    /\ UNCHANGED <<raised, vectora, vectorb, dunningvector>>

\* line 360
LogRatios ==
    /\ pc = "counted"
    /\ diffmatrix' = log_ratios(vecbyyear, datevector)
    /\ vecbyyear' = SmoothedVectors(vecbyyear)
    /\ pc' = "ratios"
    /\ UNCHANGED <<VOCABLENGTH, metadata, names, personalnames, files_read, rows_read, lastfile,
                   grid, wordsdict, genderdict, n_drawn, selected, vocab, wordsinorder,
                   matrixfile, outrows>>
    /\ UNCHANGED <<raised, vectora, vectorb, dunningvector>>

\* line 371
WriteMatrix ==
    /\ pc = "ratios"
    /\ matrixfile' = writematrix(diffmatrix)
    /\ pc' = "written"
    /\ UNCHANGED <<VOCABLENGTH, metadata, names, personalnames, files_read, rows_read, lastfile,
                   grid, wordsdict, genderdict, n_drawn, selected, vocab, wordsinorder,
                   vecbyyear, diffmatrix, outrows>>
    /\ UNCHANGED <<raised, vectora, vectorb, dunningvector>>

\* lines 373-430
RegressionLoop ==
    /\ pc = "written"
    /\ LET r == regression_loop(0, diffmatrix, <<>>)
       IN /\ outrows' = r.outrows
          /\ pc' = IF r.raised # "" THEN "raised" ELSE "done"
          /\ raised' = r.raised
    /\ UNCHANGED <<VOCABLENGTH, metadata, names, personalnames, files_read, rows_read, lastfile,
                   grid, wordsdict, genderdict, n_drawn, selected, vocab, wordsinorder,
                   vecbyyear, diffmatrix, matrixfile>>
    /\ UNCHANGED dunningvars

Next ==
    \/ FillGrid
    \/ SelectChars
    \/ MakeVocab
    \/ CountVectors
    \/ LogRatios
    \/ WriteMatrix
    \/ RegressionLoop

Spec == Init /\ [][Next]_vars

-----------------------------------------------------------------------------
(* dunnings.  G is kept as its sign: the four observed counts and the four *)
(* expected counts have the same sum, so when every observed count is      *)
(* positive the sum of observed * log(observed / expected) is positive,    *)
(* or zero when every observed count equals its expected count.            *)

\* a finite float of which only the sign is kept
Signed(s) == [kind |-> "finite", num |-> s, den |-> 1]

Times(x, y) == Finite(x.num * y.num, x.den * y.den)

\* x > y on finite floats
Greater(x, y) == x.num * y.den > y.num * x.den

\* actual * np.log(actual / expected) for one cell of the tables
TableTerm(actual, expected) ==
    LET l == Log(Divide(actual, expected))
    IN IF l.kind = "nan" THEN NaN
       ELSE IF l.kind = "inf" THEN IF actual.num = 0 THEN NaN ELSE l
       ELSE IF actual.num = 0 THEN Signed(0)
       ELSE IF l.num > l.den THEN Signed(1)
       ELSE IF l.num < l.den THEN Signed(-1)
       ELSE Signed(0)

\* np.sum of the four terms
SumOfTerms(terms) ==
    IF \E k \in 1 .. Len(terms) : terms[k].kind = "nan" THEN NaN
    ELSE IF \E j, k \in 1 .. Len(terms) :
                terms[j].kind = "inf" /\ terms[k].kind = "inf" /\ terms[j].num # terms[k].num
    THEN NaN
    ELSE IF \E k \in 1 .. Len(terms) : terms[k].kind = "inf"
    THEN CHOOSE t \in {terms[k] : k \in 1 .. Len(terms)} : t.kind = "inf"
    ELSE IF \A k \in 1 .. Len(terms) : terms[k].num = 0 THEN Signed(0)
    ELSE Signed(1)

\* -G
Negated(x) == [x EXCEPT !.num = IF x.kind = "nan" THEN 0 ELSE -(x.num)]

\* the test of line 253
Flip(expectedIB, observedB) == Greater(expectedIB, observedB)

\* lines 233-256 for the 0-based index i
DunningAt(a, b, i) ==
    LET totala == Sum(a)
        totalb == Sum(b)
        totalboth == totala + totalb
        ai == a[i + 1]
        bi == b[i + 1]
        probI == Divide(Finite(ai + bi, 1), Finite(totalboth, 1))
        probnotI == Finite(probI.den - probI.num, probI.den)
        expectedIA == Times(Finite(totala, 1), probI)
        expectedIB == Times(Finite(totalb, 1), probI)
        expectedNotIA == Times(Finite(totala, 1), probnotI)
        expectedNotIB == Times(Finite(totalb, 1), probnotI)
        G == SumOfTerms(<<TableTerm(Finite(ai, 1), expectedIA),
                          TableTerm(Finite(totala - ai, 1), expectedNotIA),
                          TableTerm(Finite(bi, 1), expectedIB),
                          TableTerm(Finite(totalb - bi, 1), expectedNotIB)>>)
    IN IF ai = 0 \/ bi = 0 THEN Finite(0, 1)
       ELSE IF Flip(expectedIB, Finite(bi, 1)) THEN Negated(G)
       ELSE G

dunnings(a, b) == [k \in 1 .. Len(a) |-> DunningAt(a, b, k - 1)]

CountVectorsUpTo(length, count) == UNION {[1 .. m -> 0 .. count] : m \in 0 .. length}

InitDunnings ==
    /\ pc = "dunnings"
    /\ ScriptStart({NoMetadata}, {<<>>})
    /\ vectora \in CountVectorsUpTo(MaxVecLen, MaxCount)
    /\ vectorb \in CountVectorsUpTo(MaxVecLen, MaxCount)
    /\ dunningvector = <<>>

\* a call of dunnings
Dunnings ==
    /\ pc = "dunnings"
    /\ IF Len(vectora) # Len(vectorb)
       THEN pc' = "raised" /\ raised' = "AssertionError" /\ dunningvector' = dunningvector
       ELSE pc' = "returned" /\ raised' = "" /\ dunningvector' = dunnings(vectora, vectorb)
    /\ UNCHANGED <<VOCABLENGTH, metadata, names, personalnames, files_read, rows_read, lastfile,
                   grid, wordsdict, genderdict, n_drawn, selected, vocab, wordsinorder,
                   vecbyyear, diffmatrix, matrixfile, outrows, vectora, vectorb>>

NextDunnings == Dunnings

SpecDunnings == InitDunnings /\ [][NextDunnings]_vars

-----------------------------------------------------------------------------
(* Properties of fill_grid. *)

RowCharGender(row) == IF "chargender" \in row.keys THEN row.chargender ELSE row.gender

\* the author gender of a row: the inline one, or the one the metadata
\* gives for its docid, or none
RowAuthGender(row) ==
    IF "authgender" \in row.keys THEN row.authgender
    ELSE IF metadata.bound /\ InIndex(PyStr(row.docid), metadata)
    THEN Loc(PyStr(row.docid), metadata)
    ELSE "<none>"

\* the three conditions of C1 for a row: its pubdate lies in 1780..2007, its
\* author gender is exactly m or f, and its character gender does not start
\* with u
MeetsConditions(row) ==
    /\ RowAuthGender(row) \in {"m", "f"}
    /\ ~(RowCharGender(row) # <<>> /\ RowCharGender(row)[1] = "u")
    /\ IsNumeral(row.pubdate)
    /\ 1780 <= ParseInt(row.pubdate) /\ ParseInt(row.pubdate) <= 2007

\* the row meets the three conditions, with pubdate y and author gender g
Qualifies(row, y, g) ==
    /\ MeetsConditions(row)
    /\ ParseInt(row.pubdate) = y
    /\ RowAuthGender(row) = g

QualifyingRow(rows, charid, y, g) ==
    \E j \in 1 .. Len(rows) : rows[j].charid = charid /\ Qualifies(rows[j], y, g)

DictChanged(old, new, c) == c \notin DOMAIN old \/ old[c] # new[c]

\* C1: a call of fill_grid only appends to a Grid cell (y, g) ids of rows of
\* its file whose pubdate is y in 1780..2007, whose author gender is exactly
\* g in {m, f} and whose character gender does not start with u; the entry of
\* an id in the word-list map and in the character-gender map changes only for
\* such a row; and a file none of whose rows meets the three conditions leaves
\* the Grid and both maps unchanged.
C1_FillGridTakesOnlyQualifyingRows ==
    [][files_read' = files_read + 1 =>
        /\ \A y \in Years : \A g \in GenderSet :
              /\ Len(grid'[y][g]) >= Len(grid[y][g])
              /\ SubSeq(grid'[y][g], 1, Len(grid[y][g])) = grid[y][g]
              /\ \A k \in Len(grid[y][g]) + 1 .. Len(grid'[y][g]) :
                     QualifyingRow(lastfile', grid'[y][g][k], y, g)
        /\ \A c \in DOMAIN wordsdict' :
              DictChanged(wordsdict, wordsdict', c) =>
                  \E j \in 1 .. Len(lastfile') :
                      lastfile'[j].charid = c /\ MeetsConditions(lastfile'[j])
        /\ \A c \in DOMAIN genderdict' :
              DictChanged(genderdict, genderdict', c) =>
                  \E j \in 1 .. Len(lastfile') :
                      lastfile'[j].charid = c /\ MeetsConditions(lastfile'[j])
        /\ (\A j \in 1 .. Len(lastfile') : ~MeetsConditions(lastfile'[j]))
              => UNCHANGED <<grid, wordsdict, genderdict>>
    ]_vars

\* a second file held a row of year 2008 and changed nothing, after a first
\* file put c1 in cell (1780, f)
C1_Witness ==
    /\ files_read = 2
    /\ Len(lastfile) = 1
    /\ lastfile[1].pubdate = Numeral2008
    /\ grid[FirstYear]["f"] = <<"c1">>
    /\ DOMAIN wordsdict = {"c1"}
    /\ wordsdict["c1"] = <<the, the, dog>>

-----------------------------------------------------------------------------
(* Properties of select_chars. *)

Elements(seq) == {seq[k] : k \in 1 .. Len(seq)}

\* C2: select_chars(grid, n) returns, for every cell (y, g), exactly n ids, each
\* an element of grid[y][g], when grid[y][g] is not empty, and the empty
\* sequence when it is empty; the grid is not modified.
C2_SelectCharsDrawsNFromEachCell ==
    [][(pc = "fill" /\ pc' = "selected") =>
        /\ grid' = grid
        /\ \A y \in Years : \A g \in GenderSet :
              IF grid[y][g] # <<>>
              THEN /\ Len(selected'[y][g]) = n_drawn'
                   /\ Elements(selected'[y][g]) \subseteq Elements(grid[y][g])
              ELSE selected'[y][g] = <<>>
    ]_vars

\* two draws from a cell of two characters took the same character twice,
\* and the other cell of the year stayed empty
C2_Witness ==
    /\ pc = "selected"
    /\ n_drawn = 2
    /\ grid[FirstYear]["f"] = <<"c1", "c3">>
    /\ selected[FirstYear]["f"] = <<"c3", "c3">>
    /\ selected[FirstYear]["m"] = <<>>

-----------------------------------------------------------------------------
(* Properties of the vocabulary. *)

LexiconNames == {RStrip(names[k]) : k \in 1 .. Len(names)}

SaidNames == {SaidPrefix \o w : w \in LexiconNames}

VocabularyBuilt == pc \in {"vocabulary", "counted", "ratios", "written", "done"}

\* the words of the selected characters of all the cells
SelectedWords ==
    UNION {Elements(wordsdict[c]) :
              c \in UNION {Elements(selected[y][g]) : <<y, g>> \in NonEmptyCells(selected)}}

\* C3: the vocabulary holds at most VOCABLENGTH words, all distinct, none a
\* name of the lexicon and none "said-" followed by a name of the lexicon.
C3_VocabularyBoundedAndNameFree ==
    VocabularyBuilt =>
        /\ Len(wordsinorder) <= VOCABLENGTH
        /\ \A j, k \in 1 .. Len(wordsinorder) : wordsinorder[j] = wordsinorder[k] => j = k
        /\ \A k \in 1 .. Len(wordsinorder) :
              /\ wordsinorder[k] \notin LexiconNames
              /\ wordsinorder[k] \notin SaidNames

\* the selected characters used a name and a said-name of the lexicon, the
\* counter held more words than VOCABLENGTH, and the vocabulary was cut
C3_Witness ==
    /\ pc = "vocabulary"
    /\ al \in LexiconNames /\ al \in SelectedWords
    /\ (SaidPrefix \o al) \in SelectedWords
    /\ Len(vocab) > VOCABLENGTH
    /\ Len(wordsinorder) = VOCABLENGTH

-----------------------------------------------------------------------------
(* Properties of the count vectors. *)

\* the occurrences, among the words of the characters chars taken with their
\* multiplicity, of a word of the set words: the pairs of a position in
\* chars and a position in that character's word list
Occurrences(chars, words) ==
    {p \in UNION {{k} \X (1 .. Len(wordsdict[chars[k]])) : k \in 1 .. Len(chars)} :
        wordsdict[chars[p[1]]][p[2]] \in words}

\* C4: after the counting phase, for every cell (y, g), position idx of
\* vecbyyear[g][y] is the number of words of the characters of selected[y][g],
\* with multiplicity, equal to the vocabulary word of index idx, and the sum of
\* the vector is the number of their words that are in the vocabulary.
C4_CountVectorCountsVocabularyWords ==
    pc = "counted" =>
        \A y \in Years : \A g \in GenderSet :
            /\ \A idx \in 0 .. Len(wordsinorder) - 1 :
                  vecbyyear[g][y][idx + 1] =
                      Cardinality(Occurrences(selected[y][g], {wordsinorder[idx + 1]}))
            /\ Sum(vecbyyear[g][y]) =
                  Cardinality(Occurrences(selected[y][g], Elements(wordsinorder)))

\* a character drawn twice counted its two vocabulary words twice, and its
\* words outside the vocabulary not at all
C4_Witness ==
    /\ pc = "counted"
    /\ selected[FirstYear]["f"] = <<"c3", "c3">>
    /\ wordsdict["c3"] = <<al, SaidPrefix \o al, SaidPrefix \o the, dog>>
    /\ wordsinorder = <<al>>
    /\ vecbyyear["f"][FirstYear] = <<2>>

-----------------------------------------------------------------------------
(* Properties of log_ratios. *)

\* the count of position k (1-based) of cell (y, g) before smoothing
CountAt(y, g, k) ==
    IF k <= Len(wordsinorder)
    THEN Cardinality(Occurrences(selected[y][g], {wordsinorder[k]}))
    ELSE 0

\* C5: log_ratios adds 1 to every entry of both vectors of every year exactly
\* once, so every smoothed entry is >= 1 and both smoothed totals are > 0, and
\* every value of the matrix is the logarithm of the ratio of the female to
\* the male probability, a ratio that is defined and strictly positive.
C5_SmoothedLogRatiosDefined ==
    (pc \in {"ratios", "written", "done"}) =>
        \A i \in 1 .. Len(datevector) :
            LET y == datevector[i]
                f == vecbyyear["f"][y]
                m == vecbyyear["m"][y]
            IN /\ Len(f) = VOCABLENGTH /\ Len(m) = VOCABLENGTH
               /\ Len(diffmatrix[i]) = VOCABLENGTH
               /\ Sum(f) > 0 /\ Sum(m) > 0
               /\ \A k \in 1 .. VOCABLENGTH :
                     /\ f[k] = CountAt(y, "f", k) + 1
                     /\ m[k] = CountAt(y, "m", k) + 1
                     /\ f[k] >= 1 /\ m[k] >= 1
                     /\ diffmatrix[i][k].kind = "log"
                     /\ diffmatrix[i][k].num > 0 /\ diffmatrix[i][k].den > 0
                     /\ diffmatrix[i][k].num * (m[k] * Sum(f))
                            = diffmatrix[i][k].den * (f[k] * Sum(m))

\* a year whose male cell has an empty selection and whose female cell has
\* not, with a log ratio other than 0, beside a year with both cells empty
C5_Witness ==
    /\ pc = "ratios"
    /\ selected[FirstYear]["f"] # <<>>
    /\ selected[FirstYear]["m"] = <<>>
    /\ selected[LastYear]["f"] = <<>> /\ selected[LastYear]["m"] = <<>>
    /\ ~IsZero(diffmatrix[1][1])
    /\ IsZero(diffmatrix[Len(diffmatrix)][1])

-----------------------------------------------------------------------------
(* The regression loop and the agreement on the vocabulary. *)

InsufficientData == "insufficient data"

\* C6: for every vocabulary word whose column of the matrix has fewer than 2
\* entries different from 0, the run does not end in the exception of the fit
\* and the word's record carries an insufficient-data marker in place of an
\* ordinary slope and intercept.
C6_InsufficientDataIsFlagged ==
    (pc = "done" \/ (pc = "raised" /\ raised = "ValueError" /\ diffmatrix # <<>>)) =>
        \A k \in 1 .. Len(wordsinorder) :
            Cardinality(NotMissing(Column(diffmatrix, k - 1))) < 2 =>
                /\ pc = "done"
                /\ outrows[k].slope = InsufficientData
                /\ outrows[k].intercept = InsufficientData

\* C7: all derived structures agree on the vocabulary: every count vector and
\* every row of the matrix has |vocabulary| positions, the header of the
\* matrix file has one column per value of each of its 228 rows, and the
\* trend summary has one record per vocabulary word, in vocabulary order.
C7_StructuresAgreeOnVocabulary ==
    /\ pc = "counted" =>
          \A y \in Years : \A g \in GenderSet : Len(vecbyyear[g][y]) = Len(wordsinorder)
    /\ pc \in {"ratios", "written", "done"} =>
          \A i \in 1 .. Len(diffmatrix) : Len(diffmatrix[i]) = Len(wordsinorder)
    /\ matrixfile.written =>
          /\ Len(matrixfile.rows) = 228
          /\ \A i \in 1 .. Len(matrixfile.rows) :
                Len(matrixfile.rows[i]) = Len(matrixfile.header)
    /\ (pc = "done" \/ (pc = "raised" /\ raised = "IndexError")) =>
          /\ pc = "done"
          /\ Len(outrows) = Len(wordsinorder)
          /\ \A k \in 1 .. Len(outrows) : outrows[k].word = wordsinorder[k]

-----------------------------------------------------------------------------
(* Properties of the vocabulary counter. *)

\* vocab[w], 0 for a word the counter does not hold
VocabCount(w) ==
    IF \E k \in 1 .. Len(vocab) : vocab[k][1] = w
    THEN vocab[CHOOSE k \in 1 .. Len(vocab) : vocab[k][1] = w][2]
    ELSE 0

\* the occurrences of w among the words of all the selected characters
SelectedOccurrences(w) ==
    UNION {{c} \X Occurrences(selected[c[1]][c[2]], {w}) : c \in NonEmptyCells(selected)}

\* C10: make_vocab counts every occurrence of a word w of a selected
\* character if and only if w is not a name of the lexicon and is not "said-"
\* followed by a name of the lexicon.
C10_CountsAllButNamesAndSaidNames ==
    VocabularyBuilt =>
        \A w \in SelectedWords :
            VocabCount(w) = IF w \in LexiconNames \/ w \in SaidNames
                            THEN 0
                            ELSE Cardinality(SelectedOccurrences(w))

-----------------------------------------------------------------------------
(* Properties of dunnings(female, male): vectora is female, vectorb male. *)

IsNegative(x) == x.kind \in {"finite", "inf"} /\ x.num < 0

\* C8: at every index where both counts are nonzero and G is computed, the
\* result is negative when the male count exceeds its expected count, the
\* male total times the pooled probability of the word, and is not negative
\* when the male count is below it.
C8_NegativeWhenMaleAboveExpected ==
    pc = "returned" =>
        \A k \in 1 .. Len(dunningvector) :
            (vectora[k] # 0 /\ vectorb[k] # 0 /\ dunningvector[k].kind = "finite") =>
                LET total == Sum(vectora) + Sum(vectorb)
                    pooled == vectora[k] + vectorb[k]
                IN /\ vectorb[k] * total > Sum(vectorb) * pooled
                        => IsNegative(dunningvector[k])
                   /\ vectorb[k] * total < Sum(vectorb) * pooled
                        => ~IsNegative(dunningvector[k])

\* C9: no undefined or non-finite value is stored in the returned vector, and
\* the value is exactly 0 at every index where a cell of the observed table is
\* 0, where the calculation divides by zero or takes the logarithm of zero.
C9_FailedCalculationLeavesZero ==
    pc = "returned" =>
        \A k \in 1 .. Len(dunningvector) :
            /\ dunningvector[k].kind = "finite"
            /\ (vectora[k] # 0 /\ vectorb[k] # 0
                  /\ (Sum(vectora) - vectora[k] = 0 \/ Sum(vectorb) - vectorb[k] = 0))
                  => dunningvector[k] = Finite(0, 1)

====
